---- MODULE Spec2Model ----
(***************************************************************************)
(* A model of the selection engine of server.js: shuffleArray (the         *)
(* Fisher-Yates shuffle, in place) and pickSongs (the multi-trial greedy   *)
(* duration fit).  One call is followed from its arguments to its return,  *)
(* one loop iteration per step; every Math.random() draw is a              *)
(* nondeterministic choice of the index it yields.                         *)
(*                                                                         *)
(* Arrays are sequences; the program's 0-based index p is position p + 1.  *)
(***************************************************************************)
EXTENDS Integers, Sequences, FiniteSets

VARIABLES
    input,               \* the contents of the caller's array when the call is made
    array,               \* the caller's array (shuffleArray reorders it in place)
    time,                \* pickSongs' argument time, in minutes
    attemptsArg,         \* pickSongs' third argument: << >> when omitted, <<n>> when given
    call,                \* which function was called: "none", "shuffleArray", "pickSongs"
    pc,                  \* "idle", "loop", "shuffle", "scan", "returned"
    time_in_ms,          \* pickSongs' local
    bestCombination,     \* pickSongs' local
    bestTime,            \* pickSongs' local
    attempt,             \* pickSongs' loop counter
    shuffledArray,       \* the trial's copy of array
    i,                   \* shuffleArray's loop counter
    currentCombination,  \* the trial's subset
    currentTime,         \* the trial's running total
    k,                   \* the position of the for...of iterator over shuffledArray
    result,              \* what pickSongs returned
    trialLog             \* for each total a finished trial reached, the subset of the
                         \* earliest trial that reached it

vars == <<input, array, time, attemptsArg, call, pc, time_in_ms, bestCombination,
          bestTime, attempt, shuffledArray, i, currentCombination, currentTime, k,
          result, trialLog>>

-----------------------------------------------------------------------------
(* Bounds of the model and the inputs it draws.                            *)

MaxLen == 3

MaxAttempts == 2

DefaultAttempts == 10

MsPerMinute == 60000

Times == {-1, 0, 1, 2, 3}

Pool == { [id |-> 1, duration_ms |-> 0],
          [id |-> 2, duration_ms |-> 60000],
          [id |-> 3, duration_ms |-> 120000],
          [id |-> 4, duration_ms |-> 60000] }

ScenarioTracks == << [id |-> 1, duration_ms |-> 180000],
                     [id |-> 2, duration_ms |-> 200000],
                     [id |-> 3, duration_ms |-> 150000] >>

SeqsUpTo(S, n) == UNION { [1..m -> S] : m \in 0..n }

-----------------------------------------------------------------------------
(* Helpers on sequences.                                                   *)

Range(s) == { s[p] : p \in DOMAIN s }

Count(s, x) == Cardinality({ p \in DOMAIN s : s[p] = x })

SameMultiset(s, t) == \A x \in Range(s) \cup Range(t) : Count(s, x) = Count(t, x)

RECURSIVE SumDur(_)
SumDur(s) == IF s = << >> THEN 0 ELSE Head(s).duration_ms + SumDur(Tail(s))

Max(S) == CHOOSE m \in S : \A x \in S : x <= m

\* every ordering of the elements of s
PermsOf(s) == { t \in [DOMAIN s -> Range(s)] : SameMultiset(t, s) }

-----------------------------------------------------------------------------
(* The program's pure parts.                                               *)

\* Math.floor(Math.random() * (i + 1)) with Math.random() in [0, 1)
JRangeBelowI(n) == 0 .. (n - 1)

JRange(n) == 0 .. n

\* [array[i], array[j]] = [array[j], array[i]]
Swap(a, p, q) == [a EXCEPT ![p + 1] = a[q + 1], ![q + 1] = a[p + 1]]

\* every array shuffleArray's loop can leave behind, entered with counter n
RECURSIVE ShuffleFrom(_, _)
ShuffleFrom(a, n) ==
    IF n > 0
    THEN UNION { ShuffleFrom(Swap(a, n, j), n - 1) : j \in JRange(n) }
    ELSE {a}

\* the default parameter attempts = 10
Attempts(arg) == IF arg = << >> THEN DefaultAttempts ELSE arg[1]

TimeInMsAsHours(t) == t * MsPerMinute * 60

TimeInMs(t) == t * MsPerMinute

FitsIgnoringTrack(total, track, limit) == total <= limit

Fits(total, track, limit) == total + track.duration_ms <= limit

BetterAlways(total, best) == TRUE

Better(total, best) == total > best

-----------------------------------------------------------------------------

Init ==
    /\ \/ /\ input \in SeqsUpTo(Pool, MaxLen)
          /\ time \in Times
          /\ attemptsArg \in { <<n>> : n \in -1 .. MaxAttempts }
       \/ /\ input = ScenarioTracks
          /\ time = 5
          /\ attemptsArg \in { << >>, <<10>> }
    /\ array = input
    /\ call = "none"
    /\ pc = "idle"
    /\ time_in_ms = 0
    /\ bestCombination = << >>
    /\ bestTime = 0
    /\ attempt = 0
    /\ shuffledArray = << >>
    /\ i = 0
    /\ currentCombination = << >>
    /\ currentTime = 0
    /\ k = 0
    /\ result = << >>
    /\ trialLog = [t \in {} |-> << >>]

\* shuffleArray(tracks), as the /shuffle route calls it
CallShuffleArray ==
    /\ pc = "idle"
    /\ call' = "shuffleArray"
    /\ i' = Len(array) - 1
    /\ pc' = "shuffle"
    /\ UNCHANGED <<input, array, time, attemptsArg, time_in_ms, bestCombination,
                   bestTime, attempt, shuffledArray, currentCombination,
                   currentTime, k, result, trialLog>>

\* pickSongs(array, time, attempts): the locals before the loop
CallPickSongs ==
    /\ pc = "idle"
    /\ call' = "pickSongs"
    /\ time_in_ms' = TimeInMs(time)
    /\ bestCombination' = << >>
    /\ bestTime' = 0
    /\ attempt' = 0
    /\ pc' = "loop"
    /\ UNCHANGED <<input, array, time, attemptsArg, shuffledArray, i,
                   currentCombination, currentTime, k, result, trialLog>>

\* a trial begins: let shuffledArray = [...array]; shuffleArray(shuffledArray)
TrialBegin ==
    /\ pc = "loop"
    /\ attempt < Attempts(attemptsArg)
    /\ shuffledArray' = array
    /\ i' = Len(array) - 1
    /\ pc' = "shuffle"
    /\ UNCHANGED <<input, array, time, attemptsArg, call, time_in_ms,
                   bestCombination, bestTime, attempt, currentCombination,
                   currentTime, k, result, trialLog>>

ShuffleStepAliased ==
    /\ pc = "shuffle"
    /\ i > 0
    /\ \E j \in JRange(i) :
          IF call = "shuffleArray"
          THEN /\ array' = Swap(array, i, j)
               /\ UNCHANGED shuffledArray
          ELSE /\ array' = Swap(array, i, j)
               /\ shuffledArray' = array'
    /\ i' = i - 1
    /\ UNCHANGED <<input, time, attemptsArg, call, pc, time_in_ms, bestCombination,
                   bestTime, attempt, currentCombination, currentTime, k, result,
                   trialLog>>

\* one iteration of shuffleArray's loop, on the array it was given
ShuffleStep ==
    /\ pc = "shuffle"
    /\ i > 0
    /\ \E j \in JRange(i) :
          IF call = "shuffleArray"
          THEN /\ array' = Swap(array, i, j)
               /\ UNCHANGED shuffledArray
          ELSE /\ shuffledArray' = Swap(shuffledArray, i, j)
               /\ UNCHANGED array
    /\ i' = i - 1
    /\ UNCHANGED <<input, time, attemptsArg, call, pc, time_in_ms, bestCombination,
                   bestTime, attempt, currentCombination, currentTime, k, result,
                   trialLog>>

\* shuffleArray's loop ends; in pickSongs the trial's scan is set up
ShuffleReturn ==
    /\ pc = "shuffle"
    /\ ~(i > 0)
    /\ IF call = "shuffleArray"
       THEN /\ pc' = "returned"
            /\ UNCHANGED <<currentCombination, currentTime, k>>
       ELSE /\ pc' = "scan"
            /\ currentCombination' = << >>
            /\ currentTime' = 0
            /\ k' = 0
    /\ UNCHANGED <<input, array, time, attemptsArg, call, time_in_ms,
                   bestCombination, bestTime, attempt, shuffledArray, i, result,
                   trialLog>>

ScanStepBreaking ==
    /\ pc = "scan"
    /\ k < Len(shuffledArray)
    /\ LET track == shuffledArray[k + 1] IN
          IF Fits(currentTime, track, time_in_ms)
          THEN /\ currentCombination' = Append(currentCombination, track)
               /\ currentTime' = currentTime + track.duration_ms
               /\ k' = k + 1
          ELSE /\ UNCHANGED <<currentCombination, currentTime>>
               /\ k' = Len(shuffledArray)
    /\ UNCHANGED <<input, array, time, attemptsArg, call, pc, time_in_ms,
                   bestCombination, bestTime, attempt, shuffledArray, i, result,
                   trialLog>>

\* one iteration of for (let track of shuffledArray)
ScanStep ==
    /\ pc = "scan"
    /\ k < Len(shuffledArray)
    /\ LET track == shuffledArray[k + 1] IN
          IF Fits(currentTime, track, time_in_ms)
          THEN /\ currentCombination' = Append(currentCombination, track)
               /\ currentTime' = currentTime + track.duration_ms
          ELSE UNCHANGED <<currentCombination, currentTime>>
    /\ k' = k + 1
    /\ UNCHANGED <<input, array, time, attemptsArg, call, pc, time_in_ms,
                   bestCombination, bestTime, attempt, shuffledArray, i, result,
                   trialLog>>

\* the scan is over: keep the best combination so far; attempt++
TrialEnd ==
    /\ pc = "scan"
    /\ ~(k < Len(shuffledArray))
    /\ IF Better(currentTime, bestTime)
       THEN /\ bestTime' = currentTime
            /\ bestCombination' = currentCombination
       ELSE UNCHANGED <<bestTime, bestCombination>>
    /\ trialLog' = IF currentTime \in DOMAIN trialLog
                   THEN trialLog
                   ELSE [t \in DOMAIN trialLog \cup {currentTime} |->
                            IF t = currentTime THEN currentCombination
                                               ELSE trialLog[t]]
    /\ attempt' = attempt + 1
    /\ pc' = "loop"
    /\ UNCHANGED <<input, array, time, attemptsArg, call, time_in_ms,
                   shuffledArray, i, currentCombination, currentTime, k, result>>

\* the loop over the attempts is over: return bestCombination
Return ==
    /\ pc = "loop"
    /\ ~(attempt < Attempts(attemptsArg))
    /\ result' = bestCombination
    /\ pc' = "returned"
    /\ UNCHANGED <<input, array, time, attemptsArg, call, time_in_ms,
                   bestCombination, bestTime, attempt, shuffledArray, i,
                   currentCombination, currentTime, k, trialLog>>

Next ==
    \/ CallShuffleArray
    \/ CallPickSongs
    \/ TrialBegin
    \/ ShuffleStep
    \/ ShuffleReturn
    \/ ScanStep
    \/ TrialEnd
    \/ Return

Spec == Init /\ [][Next]_vars

-----------------------------------------------------------------------------
(* The states the properties speak of.                                     *)

InPickSongs == call = "pickSongs"

PickSongsReturned == call = "pickSongs" /\ pc = "returned"

ShuffleArrayReturned == call = "shuffleArray" /\ pc = "returned"

TypeOK ==
    /\ pc \in {"idle", "loop", "shuffle", "scan", "returned"}
    /\ call \in {"none", "shuffleArray", "pickSongs"}
    /\ attempt \in 0 .. DefaultAttempts
    /\ k \in 0 .. Len(input)
    /\ i \in -1 .. Len(input)

-----------------------------------------------------------------------------
(* The properties.                                                         *)

AllDurationsZero == \A p \in DOMAIN input : input[p].duration_ms = 0

AllDurationsPositive == \A p \in DOMAIN input : input[p].duration_ms > 0

IsScenario ==
    /\ input = ScenarioTracks
    /\ time = 5
    /\ Attempts(attemptsArg) = 10

CapacityHolds ==
    /\ InPickSongs /\ attempt >= 1 =>
          /\ bestTime <= time_in_ms
          /\ SumDur(bestCombination) <= time_in_ms
    /\ PickSongsReturned => SumDur(result) <= time_in_ms

\* C1, as stated: for every target, the total duration of the tracks pickSongs
\* returns, and the best-so-far total after each trial, is at most the target
\* (stated here of the calls that run at least one trial).
C1_CapacityForEveryTarget == Attempts(attemptsArg) >= 1 => CapacityHolds

\* C1, amended: for every target that is not negative, the total duration of the
\* tracks pickSongs returns, and the best-so-far total after each trial, is at
\* most the target in milliseconds.
C1_CapacityForNonNegativeTarget == time >= 0 => CapacityHolds

\* C1 witness: a call returned a subset that fills the target exactly and leaves
\* a track out.
C1_Witness ==
    /\ PickSongsReturned
    /\ time > 0
    /\ SumDur(result) = time_in_ms
    /\ Len(result) < Len(input)

\* C2: when every track has duration 0, the target is positive and at least one
\* trial runs, pickSongs returns all the input tracks, with total duration 0.
C2_AllZeroDurationTracksReturned ==
    (PickSongsReturned /\ AllDurationsZero /\ time > 0
        /\ Attempts(attemptsArg) >= 1)
    => (SameMultiset(result, input) /\ SumDur(result) = 0)

\* C3: a call of pickSongs with a trial count below 1 does not return normally
\* (it signals an invalid argument instead).
C3_TrialCountBelowOneIsRefused ==
    (InPickSongs /\ Attempts(attemptsArg) < 1) => pc # "returned"

\* C4: no track identifier appears twice in the list pickSongs returns, whether
\* or not the input identifiers are unique.
C4_NoIdentifierTwice ==
    PickSongsReturned =>
        \A p, q \in DOMAIN result : p # q => result[p].id # result[q].id

\* C5: the best-so-far total never decreases from one trial to the next, so the
\* total returned after k + 1 trials is never below the total returned after the
\* first k of them.
C5_BestNeverDecreases ==
    [][InPickSongs =>
          /\ bestTime' >= bestTime
          /\ SumDur(bestCombination') >= SumDur(bestCombination)]_vars

\* C5 witness: a trial after the first ended with a total below the best so far,
\* and the best so far was kept.
C5_Witness ==
    /\ InPickSongs
    /\ pc = "loop"
    /\ attempt >= 2
    /\ currentTime < bestTime
    /\ SumDur(bestCombination) = bestTime

\* C6, as stated: on the tracks of 180000, 200000 and 150000 ms with a target of
\* 5 minutes and 10 trials, the returned total is at most 300000 and is the best
\* achievable total, 200000.
C6_ScenarioReturnsBestTotal ==
    (PickSongsReturned /\ IsScenario) =>
        (SumDur(result) <= 300000 /\ SumDur(result) = 200000)

\* C6, amended: on that input the returned total is at most 300000 and is one of
\* the single-track totals 150000, 180000 and 200000; it is the best achievable
\* total, 200000, exactly when some trial reached 200000.
C6_ScenarioReturnsSingleTrack ==
    (PickSongsReturned /\ IsScenario) =>
        /\ SumDur(result) <= 300000
        /\ Len(result) = 1
        /\ SumDur(result) \in {150000, 180000, 200000}
        /\ SumDur(result) = 200000 <=> 200000 \in DOMAIN trialLog

\* C6 witness: the ten trials of the scenario ended with a total below 200000.
C6_Witness ==
    /\ PickSongsReturned
    /\ IsScenario
    /\ attempt = 10
    /\ SumDur(result) = 180000

\* the array shuffleArray is reordering
ShuffleTarget == IF call = "shuffleArray" THEN array ELSE shuffledArray

\* C7: shuffleArray walks i from the last index down to 1 and swaps element i
\* with an element j in [0, i], leaving the elements above i alone from then on;
\* the array keeps its length and its multiset of tracks (length 0 or 1: it is
\* left as it was); and the arrays it can leave are exactly all the orderings of
\* its input.
C7_FullPermutationLaw ==
    /\ [](/\ pc = "idle" =>
                ShuffleFrom(input, Len(input) - 1) = PermsOf(input)
          /\ call = "shuffleArray" =>
                /\ Len(array) = Len(input)
                /\ SameMultiset(array, input)
                /\ Len(input) <= 1 => array = input
                /\ pc = "returned" => array \in ShuffleFrom(input, Len(input) - 1)
          /\ InPickSongs /\ pc \in {"shuffle", "scan"} =>
                /\ Len(shuffledArray) = Len(input)
                /\ SameMultiset(shuffledArray, input)
          /\ pc = "shuffle" => i \in -1 .. Len(input) - 1)
    /\ [][(pc = "shuffle" /\ pc' = "shuffle") =>
             /\ i >= 1
             /\ i' = i - 1
             /\ \E j \in 0 .. i : ShuffleTarget' = Swap(ShuffleTarget, i, j)
             /\ \A p \in DOMAIN ShuffleTarget :
                   p - 1 > i => ShuffleTarget'[p] = ShuffleTarget[p]]_vars

\* C7 witness: shuffleArray returned with three different tracks in the reverse
\* of their order.
C7_Witness ==
    /\ ShuffleArrayReturned
    /\ Len(input) = 3
    /\ Cardinality(Range(input)) = 3
    /\ array = <<input[3], input[2], input[1]>>

\* C8: pickSongs never changes the caller's array, and every trial starts its
\* shuffle from a fresh copy of the input as it was passed.
C8_InputNotMutated ==
    InPickSongs =>
        /\ array = input
        /\ (pc = "shuffle" /\ i = Len(input) - 1) => shuffledArray = input

\* C8 witness: a second trial starts from the input order although the first
\* trial's shuffle had left another order.
C8_Witness ==
    /\ InPickSongs
    /\ pc = "shuffle"
    /\ attempt >= 1
    /\ i = Len(input) - 1
    /\ Len(input) >= 2
    /\ SumDur(currentCombination) = currentTime
    /\ currentCombination # << >>
    /\ currentCombination[1] # input[1]

\* C9: the best-so-far subset is replaced only by a trial with a strictly greater
\* total, so the returned total is the maximum of the trial totals and the
\* returned subset is that of the earliest trial that reached this maximum.
C9_ReturnsEarliestMaximalTrial ==
    (PickSongsReturned /\ attempt >= 1) =>
        /\ bestTime = Max(DOMAIN trialLog)
        /\ result = trialLog[Max(DOMAIN trialLog)]

\* C10: with at least one trial and strictly positive durations, no track left
\* out of the returned subset could be added to it without exceeding the target.
C10_ReturnedSubsetIsMaximal ==
    (PickSongsReturned /\ Attempts(attemptsArg) >= 1 /\ AllDurationsPositive) =>
        \A x \in Range(input) :
            Count(input, x) > Count(result, x) =>
                SumDur(result) + x.duration_ms > time_in_ms

\* C10 witness: the returned subset is that of a trial that skipped the first
\* track it scanned and took a later one.
C10_Witness ==
    /\ PickSongsReturned
    /\ AllDurationsPositive
    /\ result # << >>
    /\ currentCombination = result
    /\ shuffledArray[1] \notin Range(result)

====
